---- MODULE Spec2Model ----
(***************************************************************************)
(* Model of src/server.mjs of jamulus-json-rpc-api-gateway: the POST       *)
(* /rpc/* handler, the JWT verifier with its replay cache, and the         *)
(* per-request Jamulus JSON-RPC client (connect, jamulus/apiAuth           *)
(* handshake, caller envelope, socket.end()).                              *)
(***************************************************************************)
EXTENDS Integers, Sequences, FiniteSets, TLC

VARIABLES
    now,          \* Math.floor(Date.now() / 1000), the wall clock in seconds
    jwtEnabled,   \* jwtVerifier !== null (JWT_PUBLIC_KEY configured)
    usedJtis,     \* the verifier's Map jti -> exp
    lastCleanup,  \* replayCacheState.lastCleanup
    started,      \* number of POST /rpc/* requests received so far
    req,          \* one record per request being handled (see IdleReq)
    accepted,     \* history: the tokens for which verify has returned
    everRecorded, \* history: the tokens whose jti verify has put into usedJtis
    keyConfig,    \* env.JWT_PUBLIC_KEY, with the key and the encoding it was written in
    publicKey     \* what createJwtVerifier got from readPublicKey(env.JWT_PUBLIC_KEY)

vars == <<now, jwtEnabled, usedJtis, lastCleanup, started, req, accepted,
          everRecorded, keyConfig, publicKey>>

-----------------------------------------------------------------------------
(* Bounds of the model *)

T0 == 100            \* clock reading when the process starts serving
Tick == 30           \* seconds by which one clock step advances
MaxTicks == 2        \* clock steps explored
MaxRequests == 3     \* POST requests explored
MaxStray == 1        \* frames on one connection that answer no awaited envelope
MaxPad == 1          \* whitespace characters before and after a configured key
MaxBodyLen == 2      \* characters between the PEM markers of a configured key
WrapCol == 64        \* line length of a base64 value written in lines

(* Program constants *)

CleanupInterval == 60     \* cleanupReplayCache: now - state.lastCleanup < 60
ExpCapSeconds == 300      \* README: tokens expiring more than 5 minutes ahead

ApiKeys == {"test-api-key-123", "another-key"}
JamulusSecret == "test-secret-1234567890"
AuthMethod == "jamulus/apiAuth"
BaseMethod == "jamulus/getMode"
OtherMethod == "jamulus/getVersion"
CaseMethod == "jamulus/getmode"     \* BaseMethod in another letter case
Methods == {BaseMethod, OtherMethod}
Slots == {1}

-----------------------------------------------------------------------------
(* JSON values as the handler sees them: a type tag and a value *)

Num(n) == [type |-> "number", val |-> n]
UndefN == [type |-> "undefined", val |-> 0]
Str(s) == [type |-> "string", val |-> s]
UndefS == [type |-> "undefined", val |-> ""]
Obj(s) == [type |-> "object", val |-> s]
Arr(s) == [type |-> "array", val |-> s]
NullV == [type |-> "null", val |-> ""]

\* JavaScript truthiness, as used by !x, x && y and x || y
Truthy(v) ==
    CASE v.type = "undefined" -> FALSE
      [] v.type = "null" -> FALSE
      [] v.type = "number" -> v.val # 0
      [] v.type = "string" -> v.val # ""
      [] OTHER -> TRUE

EmptyObject == Obj("{}")

\* x || {}
OrEmptyObject(v) == IF Truthy(v) THEN v ELSE EmptyObject

-----------------------------------------------------------------------------
(* Request bodies *)

Payload(jti, exp, nbf, method, params) ==
    [jti |-> jti, exp |-> exp, nbf |-> nbf, method |-> method, params |-> params]

NoPayload == Payload(UndefS, UndefN, UndefN, UndefS, UndefS)

\* A string body: a compact JWT of nseg dot-separated segments, whose header
\* names alg, whose signature does or does not verify under the public key
StringBody(empty, nseg, alg, sigOk, payload) ==
    [type |-> "string", empty |-> empty, nseg |-> nseg, alg |-> alg,
     sigOk |-> sigOk, payload |-> payload, params |-> UndefS, jwt |-> FALSE]

Jwt(payload) == StringBody(FALSE, 3, "EdDSA", TRUE, payload)

\* A parsed application/json body, with its params member and with or without
\* a jwt member
ObjectBody(params, jwt) ==
    [type |-> "object", empty |-> FALSE, nseg |-> 0, alg |-> "", sigOk |-> FALSE,
     payload |-> NoPayload, params |-> params, jwt |-> jwt]

\* A parsed application/json body {"jwt": "<token>"}: the fields of the token
\* describe the string held by the jwt member
JwtObjectBody(token) == [token EXCEPT !.type = "object", !.jwt = TRUE]

NoBody ==
    [type |-> "undefined", empty |-> FALSE, nseg |-> 0, alg |-> "", sigOk |-> FALSE,
     payload |-> NoPayload, params |-> UndefS, jwt |-> FALSE]

Jtis == {"jti-a", "jti-b"}
ExpSoon == T0 + Tick
ExpLater == T0 + 2 * Tick
ExpFar == T0 + ExpCapSeconds + Tick
Exps == {ExpSoon, ExpLater, ExpFar}

\* Well-formed tokens for BaseMethod, one per jti and exp
GoodJwt(j, e) == Jwt(Payload(Str(j), Num(e), UndefN, Str(BaseMethod), UndefS))

GoodJwts == {GoodJwt(j, e) : j \in Jtis, e \in Exps}

\* One-field variations of a well-formed token
OddJwts ==
    { Jwt(Payload(Str("jti-a"), Num(ExpLater), Num(T0 + Tick), Str(BaseMethod), UndefS)),
      Jwt(Payload(Str("jti-a"), Num(ExpLater), Num(0), Str(BaseMethod), UndefS)),
      Jwt(Payload(UndefS, Num(ExpLater), UndefN, Str(BaseMethod), UndefS)),
      Jwt(Payload(Str(""), Num(ExpLater), UndefN, Str(BaseMethod), UndefS)),
      Jwt(Payload(Str("jti-a"), UndefN, UndefN, Str(BaseMethod), UndefS)),
      Jwt(Payload(Str("jti-a"), Num(ExpLater), UndefN, UndefS, UndefS)),
      Jwt(Payload(Str("jti-a"), Num(ExpLater), UndefN, Str(BaseMethod), Obj("{x:1}"))),
      Jwt(Payload(Str("jti-a"), Num(ExpLater), UndefN, Str(BaseMethod), Arr("[1]"))),
      Jwt(Payload(Str("jti-a"), Num(ExpLater), UndefN, Str(BaseMethod), NullV)),
      Jwt(Payload(Str("jti-a"), Num(ExpLater), UndefN, Str(BaseMethod), Str("x"))),
      StringBody(FALSE, 3, "EdDSA", FALSE,
                 Payload(Str("jti-a"), Num(ExpSoon), UndefN, Str(BaseMethod), UndefS)),
      StringBody(FALSE, 3, "HS256", TRUE,
                 Payload(Str("jti-a"), Num(ExpLater), UndefN, Str(BaseMethod), UndefS)),
      StringBody(FALSE, 2, "EdDSA", FALSE, NoPayload),
      StringBody(TRUE, 1, "", FALSE, NoPayload) }

JsonBodies ==
    { ObjectBody(Obj("{x:1}"), FALSE),
      ObjectBody(UndefS, FALSE),
      ObjectBody(UndefS, TRUE),
      NoBody }

ValidKey == Str("test-api-key-123")
BadKeys == {UndefS, Str(""), Str("invalid-api-key-xyz")}

\* The requests explored: <<X-API-Key header, method path, body>>
SignedInputs ==
    ({ValidKey} \X Methods \X (GoodJwts \cup OddJwts \cup JsonBodies))
    \cup ({ValidKey} \X {CaseMethod} \X {GoodJwt("jti-b", ExpLater)})
    \cup (BadKeys \X {BaseMethod} \X {GoodJwt("jti-a", ExpLater)})
    \cup ({ValidKey} \X {BaseMethod} \X {JwtObjectBody(GoodJwt("jti-b", ExpLater))})

PlainInputs ==
    ({ValidKey} \X Methods \X (JsonBodies \cup {GoodJwt("jti-a", ExpLater)}))
    \cup (BadKeys \X {BaseMethod} \X {NoBody})

Inputs(jwt) == IF jwt THEN SignedInputs ELSE PlainInputs

-----------------------------------------------------------------------------
(* Outcomes of an async function: still pending, returned, or thrown *)

Pending == [kind |-> "pending"]
Return(v) == [kind |-> "return", value |-> v]
Throw(m) == [kind |-> "throw", message |-> m]

\* Fastify's reply for the handler's outcome: the returned object with 200,
\* {message} with 500 for a thrown Error
HttpStatus(outcome) == IF outcome.kind = "return" THEN 200 ELSE 500

-----------------------------------------------------------------------------
(* The replay cache and the verifier *)

\* Mutant of cleanupReplayCache: a sweep empties the cache
cleanupReplayCache_ClearsAll(cache, t, last) ==
    IF t - last < CleanupInterval
    THEN [cache |-> cache, lastCleanup |-> last]
    ELSE [cache |-> <<>>, lastCleanup |-> t]

\* Mutant of cleanupReplayCache: an entry expiring at this very second is kept
cleanupReplayCache_KeepsNow(cache, t, last) ==
    IF t - last < CleanupInterval
    THEN [cache |-> cache, lastCleanup |-> last]
    ELSE [cache |-> [k \in {j \in DOMAIN cache : ~(cache[j] < t)} |-> cache[k]],
          lastCleanup |-> t]

\* Mutant of cleanupReplayCache: every call sweeps
cleanupReplayCache_Unthrottled(cache, t, last) ==
    [cache |-> [k \in {j \in DOMAIN cache : ~(cache[j] <= t)} |-> cache[k]],
     lastCleanup |-> t]

\* cleanupReplayCache(cache, now, state)
cleanupReplayCache(cache, t, last) ==
    IF t - last < CleanupInterval
    THEN [cache |-> cache, lastCleanup |-> last]
    ELSE [cache |-> [k \in {j \in DOMAIN cache : ~(cache[j] <= t)} |-> cache[k]],
          lastCleanup |-> t]

\* Mutant of IsReplay: the comparison with now is reversed
IsReplay_Reversed(cache, jti, t) ==
    /\ jti \in DOMAIN cache
    /\ cache[jti] # 0
    /\ cache[jti] < t

\* Mutant of IsReplay: a live entry of any jti counts as a replay
IsReplay_AnyJti(cache, jti, t) ==
    \E k \in DOMAIN cache : cache[k] # 0 /\ cache[k] > t

\* Mutant of IsReplay: an entry counts as a replay whatever its expiry
IsReplay_IgnoresExpiry(cache, jti, t) ==
    /\ jti \in DOMAIN cache
    /\ cache[jti] # 0

\* replayExpiration && replayExpiration > now, replayExpiration = usedJtis.get(jti)
IsReplay(cache, jti, t) ==
    /\ jti \in DOMAIN cache
    /\ cache[jti] # 0
    /\ cache[jti] > t

\* Mutant of CacheSet: the jti is not recorded
CacheSet_Dropped(cache, jti, exp) == cache

\* usedJtis.set(payload.jti, payload.exp)
CacheSet(cache, jti, exp) ==
    [k \in DOMAIN cache \cup {jti} |-> IF k = jti THEN exp ELSE cache[k]]

\* Mutant of IsExpired: a token is still valid in the second of its exp
IsExpired_Strict(payload, t) == payload.exp.val < t

\* payload.exp <= now
IsExpired(payload, t) == payload.exp.val <= t

\* payload.nbf && payload.nbf > now
IsNotYetValid(payload, t) == Truthy(payload.nbf) /\ payload.nbf.val > t

\* String.prototype.toLowerCase on the method paths of the model
Lower(s) ==
    CASE s = BaseMethod -> CaseMethod
      [] s = OtherMethod -> "jamulus/getversion"
      [] OTHER -> s

\* Mutant of IsMethodMismatch: the paths are compared ignoring letter case
IsMethodMismatch_IgnoreCase(payload, expectedMethod) ==
    Lower(payload.method.val) # Lower(expectedMethod)

\* payload.method !== expectedMethod
\* Mutant of IsMethodMismatch: the token's method is not compared
IsMethodMismatch_Never(payload, expectedMethod) == FALSE

IsMethodMismatch(payload, expectedMethod) == payload.method.val # expectedMethod

\* Mutant of IsBadParams: Array.isArray is not tested
IsBadParams_AllowsArray(payload) ==
    /\ payload.params.type # "undefined"
    /\ payload.params.type # "object"
    /\ payload.params.type # "array"

\* payload.params !== undefined && (=== null || typeof !== "object" || isArray)
IsBadParams(payload) ==
    /\ payload.params.type # "undefined"
    /\ payload.params.type # "object"

VerifyFail(msg, cache, last) ==
    [ok |-> FALSE, message |-> <<msg>>, payload |-> NoPayload,
     usedJtis |-> cache, lastCleanup |-> last]

\* Mutant of VerifyReplayAndShape: the method is compared before the replay
\* lookup
VerifyReplayAndShape_MethodFirst(payload, expectedMethod, cache, last, t) ==
    IF ~Truthy(payload.method)
    THEN VerifyFail("JWT payload missing method", cache, last)
    ELSE IF IsMethodMismatch(payload, expectedMethod)
    THEN VerifyFail("JWT method mismatch", cache, last)
    ELSE IF IsReplay(cache, payload.jti.val, t)
    THEN VerifyFail("JWT has already been used", cache, last)
    ELSE LET recorded == CacheSet(cache, payload.jti.val, payload.exp.val) IN
         IF IsBadParams(payload)
         THEN VerifyFail("JWT params must be an object", recorded, last)
         ELSE [ok |-> TRUE, message |-> <<>>, payload |-> payload,
               usedJtis |-> recorded, lastCleanup |-> last]

\* Mutant of VerifyReplayAndShape: the jti is recorded only once every check
\* has passed
VerifyReplayAndShape_RecordsLast(payload, expectedMethod, cache, last, t) ==
    IF IsReplay(cache, payload.jti.val, t)
    THEN VerifyFail("JWT has already been used", cache, last)
    ELSE IF ~Truthy(payload.method)
    THEN VerifyFail("JWT payload missing method", cache, last)
    ELSE IF IsMethodMismatch(payload, expectedMethod)
    THEN VerifyFail("JWT method mismatch", cache, last)
    ELSE IF IsBadParams(payload)
    THEN VerifyFail("JWT params must be an object", cache, last)
    ELSE [ok |-> TRUE, message |-> <<>>, payload |-> payload,
          usedJtis |-> CacheSet(cache, payload.jti.val, payload.exp.val),
          lastCleanup |-> last]

\* The checks of verify that follow cleanupReplayCache, on the swept cache
VerifyReplayAndShape(payload, expectedMethod, cache, last, t) ==
    IF IsReplay(cache, payload.jti.val, t)
    THEN VerifyFail("JWT has already been used", cache, last)
    ELSE LET recorded == CacheSet(cache, payload.jti.val, payload.exp.val) IN
         IF ~Truthy(payload.method)
         THEN VerifyFail("JWT payload missing method", recorded, last)
         ELSE IF IsMethodMismatch(payload, expectedMethod)
         THEN VerifyFail("JWT method mismatch", recorded, last)
         ELSE IF IsBadParams(payload)
         THEN VerifyFail("JWT params must be an object", recorded, last)
         ELSE [ok |-> TRUE, message |-> <<>>, payload |-> payload,
               usedJtis |-> recorded, lastCleanup |-> last]

\* The checks of verify on the decoded payload
VerifyPayload(payload, expectedMethod, cache, last, t) ==
    IF payload.exp.type # "number"
    THEN VerifyFail("JWT payload missing exp", cache, last)
    ELSE IF IsExpired(payload, t)
    THEN VerifyFail("JWT expired", cache, last)
    ELSE IF IsNotYetValid(payload, t)
    THEN VerifyFail("JWT not yet valid", cache, last)
    ELSE IF ~Truthy(payload.jti)
    THEN VerifyFail("JWT payload missing jti", cache, last)
    ELSE LET swept == cleanupReplayCache(cache, t, last) IN
         VerifyReplayAndShape(payload, expectedMethod, swept.cache,
                              swept.lastCleanup, t)

\* jwtVerifier.verify(token, expectedMethod) at clock reading t, with the
\* cache and the last sweep time it leaves behind
verify(token, expectedMethod, cache, last, t) ==
    IF token.type # "string" \/ token.empty
    THEN VerifyFail("Expected JWT body", cache, last)
    ELSE IF token.nseg # 3
    THEN VerifyFail("Invalid JWT format", cache, last)
    ELSE IF token.alg # "EdDSA"
    THEN VerifyFail("Invalid JWT algorithm", cache, last)
    ELSE IF ~token.sigOk
    THEN VerifyFail("Invalid JWT signature", cache, last)
    ELSE VerifyPayload(token.payload, expectedMethod, cache, last, t)

-----------------------------------------------------------------------------
(* The POST /rpc/* handler up to the call of jamulusClient.request *)

\* Mutant of ApiKeyError: only the presence of the header is checked
ApiKeyError_PresenceOnly(apiKey) ==
    IF ~Truthy(apiKey) THEN "Missing X-API-Key header" ELSE ""

\* Mutant of ApiKeyError: one message for both refusals
ApiKeyError_OneMessage(apiKey) ==
    IF ~Truthy(apiKey) \/ apiKey.val \notin ApiKeys
    THEN "Invalid X-API-Key header"
    ELSE ""

\* "" when the X-API-Key header passes, else the message thrown
ApiKeyError(apiKey) ==
    IF ~Truthy(apiKey) THEN "Missing X-API-Key header"
    ELSE IF apiKey.val \notin ApiKeys THEN "Invalid X-API-Key header"
    ELSE ""

\* request.body?.params || {}
PlainParams(body) ==
    IF body.type = "object" THEN OrEmptyObject(body.params) ELSE EmptyObject

IdleReq ==
    [pc |-> "idle", n |-> 0, apiKey |-> UndefS, method |-> "", body |-> NoBody,
     verified |-> FALSE, params |-> UndefS, attempts |-> 0, connOpen |-> FALSE,
     written |-> <<>>, received |-> <<>>, malformed |-> FALSE,
     cancelled |-> FALSE, outcome |-> Pending]

\* Mutant of ResolveParams: a body that is not a string is read as a plain
\* JSON body even when a verifier is configured
ResolveParams_FallsBack(jwt, body, method, cache, last, t) ==
    IF jwt /\ body.type = "string"
    THEN LET v == verify(body, method, cache, last, t) IN
         [ok |-> v.ok, message |-> v.message, verified |-> v.ok,
          params |-> OrEmptyObject(v.payload.params),
          usedJtis |-> v.usedJtis, lastCleanup |-> v.lastCleanup]
    ELSE [ok |-> TRUE, message |-> <<>>, verified |-> FALSE,
          params |-> PlainParams(body), usedJtis |-> cache, lastCleanup |-> last]

\* const params = jwtVerifier ? jwtVerifier.verify(request.body, method).params
\*   || {} : request.body?.params || {}, with what verify leaves in the cache
ResolveParams(jwt, body, method, cache, last, t) ==
    IF jwt
    THEN LET v == verify(body, method, cache, last, t) IN
         [ok |-> v.ok, message |-> v.message, verified |-> v.ok,
          params |-> OrEmptyObject(v.payload.params),
          usedJtis |-> v.usedJtis, lastCleanup |-> v.lastCleanup]
    ELSE [ok |-> TRUE, message |-> <<>>, verified |-> FALSE,
          params |-> PlainParams(body), usedJtis |-> cache, lastCleanup |-> last]

\* verify has gone past usedJtis.set(payload.jti, payload.exp): it has returned,
\* or it has thrown one of the errors that follow that line
PastRecording(p) ==
    \/ p.verified
    \/ p.message \in { <<"JWT payload missing method">>, <<"JWT method mismatch">>,
                       <<"JWT params must be an object">> }

\* The handler has thrown: Fastify replies, no client call was made
Rejected(apiKey, method, body, msg) ==
    [IdleReq EXCEPT !.pc = "done", !.n = started + 1, !.apiKey = apiKey,
                    !.method = method, !.body = body, !.outcome = Throw(msg)]

\* jamulusClient.request(method, params) up to its first await: net.connect
Connecting(apiKey, method, body, verified, params) ==
    [IdleReq EXCEPT !.pc = "connecting", !.n = started + 1, !.apiKey = apiKey,
                    !.method = method, !.body = body, !.verified = verified,
                    !.params = params, !.attempts = 1]

\* Mutant of Handle: the token is verified before the X-API-Key header is
\* looked at
Handle_VerifiesFirst(r, apiKey, method, body) ==
    /\ req[r].pc = "idle"
    /\ started < MaxRequests
    /\ started' = started + 1
    /\ UNCHANGED <<now, jwtEnabled, keyConfig, publicKey>>
    /\ LET p == ResolveParams(jwtEnabled, body, method, usedJtis, lastCleanup, now)
       IN /\ usedJtis' = p.usedJtis
          /\ lastCleanup' = p.lastCleanup
          /\ accepted' = IF p.verified THEN accepted \cup {body} ELSE accepted
          /\ everRecorded' = IF PastRecording(p) THEN everRecorded \cup {body}
                              ELSE everRecorded
          /\ req' = [req EXCEPT ![r] =
                       IF ~p.ok
                       THEN Rejected(apiKey, method, body, p.message)
                       ELSE IF ApiKeyError(apiKey) # ""
                       THEN Rejected(apiKey, method, body, <<ApiKeyError(apiKey)>>)
                       ELSE Connecting(apiKey, method, body, p.verified, p.params)]

\* fastify.post("/rpc/*"): the handler runs to its first await
Handle(r, apiKey, method, body) ==
    /\ req[r].pc = "idle"
    /\ started < MaxRequests
    /\ started' = started + 1
    /\ UNCHANGED <<now, jwtEnabled, keyConfig, publicKey>>
    /\ IF ApiKeyError(apiKey) # ""
       THEN /\ req' = [req EXCEPT ![r] =
                          Rejected(apiKey, method, body, <<ApiKeyError(apiKey)>>)]
            /\ UNCHANGED <<usedJtis, lastCleanup, accepted, everRecorded>>
       ELSE LET p == ResolveParams(jwtEnabled, body, method, usedJtis, lastCleanup, now)
            IN /\ usedJtis' = p.usedJtis
               /\ lastCleanup' = p.lastCleanup
               /\ accepted' = IF p.verified THEN accepted \cup {body} ELSE accepted
               /\ everRecorded' = IF PastRecording(p) THEN everRecorded \cup {body}
                                 ELSE everRecorded
               /\ req' = [req EXCEPT ![r] =
                            IF p.ok
                            THEN Connecting(apiKey, method, body, p.verified, p.params)
                            ELSE Rejected(apiKey, method, body, p.message)]

\* Fastify has sent the reply; the slot serves the next request
Respond(r) ==
    /\ req[r].pc = "done"
    /\ req' = [req EXCEPT ![r] = IdleReq]
    /\ UNCHANGED <<now, jwtEnabled, usedJtis, lastCleanup, started, accepted,
                   everRecorded, keyConfig, publicKey>>

\* The wall clock advances
ClockTick ==
    /\ now < T0 + MaxTicks * Tick
    /\ now' = now + Tick
    /\ UNCHANGED <<jwtEnabled, usedJtis, lastCleanup, started, req, accepted,
                   everRecorded, keyConfig, publicKey>>

-----------------------------------------------------------------------------
(* jamulusClient.request: one socket per call *)

AuthId(r) == 2 * req[r].n - 1      \* randomUUID() of the jamulus/apiAuth envelope
CallId(r) == 2 * req[r].n          \* randomUUID() of the caller's envelope
StrayId == 0                       \* an id no envelope of the connection carries

\* const request = { jsonrpc: "2.0", method, params, id }
Envelope(method, params, id) ==
    [jsonrpc |-> "2.0", method |-> method, params |-> params, id |-> id]

AuthEnvelope(r) == Envelope(AuthMethod, [secret |-> JamulusSecret], AuthId(r))
CallEnvelope(r) == Envelope(req[r].method, req[r].params, CallId(r))

ResultFrame(id, result) == [jsonrpc |-> "2.0", id |-> id, result |-> result]
ErrorFrame(id, code, message) ==
    [jsonrpc |-> "2.0", id |-> id, error |-> [code |-> code, message |-> message]]

\* Mutant of BackendFrames: one connection is shared by the requests in flight,
\* so r also reads the answers to the other requests' envelopes
BackendFrames_SharedConnection(r) ==
    {ResultFrame(StrayId, "stray")}
    \cup {ResultFrame(e.id, "ok") :
             e \in UNION {{req[q].written[i] : i \in DOMAIN req[q].written} :
                            q \in DOMAIN req}}

\* What the backend may send on r's connection: answers to the envelopes it has
\* read, each as result or as error, and a frame with a foreign id
BackendFrames(r) ==
    {ResultFrame(StrayId, "stray")}
    \cup {ResultFrame(e.id, "ok") : e \in {req[r].written[i] : i \in DOMAIN req[r].written}}
    \cup {ErrorFrame(e.id, -32000, "bad secret") :
             e \in {req[r].written[i] : i \in DOMAIN req[r].written}}

\* Mutant of Matches: the listener resolves on any frame
Matches_AnyId(response, id) == TRUE

\* if (response.id === id)
Matches(response, id) == response.id = id

\* if (authResult.error)
HasError(response) == "error" \in DOMAIN response

\* Index of the first frame of frames that carries id, 0 when there is none
FirstWithId(frames, id) ==
    IF \E i \in DOMAIN frames : frames[i].id = id
    THEN CHOOSE i \in DOMAIN frames :
            /\ frames[i].id = id
            /\ \A k \in 1..(i - 1) : frames[k].id # id
    ELSE 0

\* Frames received so far that completed no wait
Strays(r) ==
    Cardinality({i \in DOMAIN req[r].received :
                   /\ req[r].received[i].id # CallId(r)
                   /\ i # FirstWithId(req[r].received, AuthId(r))})

VerifierVars ==
    <<now, jwtEnabled, usedJtis, lastCleanup, started, accepted, everRecorded,
      keyConfig, publicKey>>

\* Mutant of ConnectOk: the caller's envelope is written together with the
\* jamulus/apiAuth envelope, without waiting for the auth answer
ConnectOk_Pipelined(r) ==
    /\ req[r].pc = "connecting"
    /\ req' = [req EXCEPT ![r].pc = "awaitAuth", ![r].connOpen = TRUE,
                          ![r].written = <<AuthEnvelope(r), CallEnvelope(r)>>]
    /\ UNCHANGED VerifierVars

\* conn.on("connect"): the socket is piped into ndjson.parse() and
\* makeRequest("jamulus/apiAuth", {secret}) writes its envelope
ConnectOk(r) ==
    /\ req[r].pc = "connecting"
    /\ req' = [req EXCEPT ![r].pc = "awaitAuth", ![r].connOpen = TRUE,
                          ![r].written = <<AuthEnvelope(r)>>]
    /\ UNCHANGED VerifierVars

\* Mutant of ConnectError: a failed connect is followed by one more net.connect
ConnectError_Retries(r) ==
    /\ req[r].pc = "connecting"
    /\ req' = IF req[r].attempts < 2
              THEN [req EXCEPT ![r].attempts = @ + 1]
              ELSE [req EXCEPT ![r].pc = "done",
                               ![r].outcome = Throw(<<"connect ECONNREFUSED">>)]
    /\ UNCHANGED VerifierVars

\* conn.on("error") before the connection is established: the await rejects
\* outside the try block
ConnectError(r) ==
    /\ req[r].pc = "connecting"
    /\ req' = [req EXCEPT ![r].pc = "done",
                          ![r].outcome = Throw(<<"connect ECONNREFUSED">>)]
    /\ UNCHANGED VerifierVars

\* Mutant of AfterAuth: authResult.error is not looked at
AfterAuth_NoErrorCheck(r, authResult, rec) ==
    [rec EXCEPT !.pc = "awaitCall",
                !.written = Append(rec.written, CallEnvelope(r))]

\* Mutant of AfterAuth: the thrown error leaves out the backend's message
AfterAuth_DropsMessage(r, authResult, rec) ==
    IF HasError(authResult)
    THEN [rec EXCEPT !.pc = "done", !.connOpen = FALSE,
                     !.outcome = Throw(<<"Unable to authenticate">>)]
    ELSE [rec EXCEPT !.pc = "awaitCall",
                     !.written = Append(rec.written, CallEnvelope(r))]

\* The continuation of request() once the auth promise resolves
AfterAuth(r, authResult, rec) ==
    IF HasError(authResult)
    THEN [rec EXCEPT !.pc = "done", !.connOpen = FALSE,
                     !.outcome = Throw(<<"Unable to authenticate: ",
                                         authResult.error.message>>)]
    ELSE [rec EXCEPT !.pc = "awaitCall",
                     !.written = Append(rec.written, CallEnvelope(r))]

\* Mutant of AfterCall: a response carrying error is thrown like authResult's
AfterCall_ThrowsOnError(r, response, rec) ==
    IF HasError(response)
    THEN [rec EXCEPT !.pc = "done", !.connOpen = FALSE,
                     !.outcome = Throw(<<response.error.message>>)]
    ELSE [rec EXCEPT !.pc = "done", !.connOpen = FALSE,
                     !.outcome = Return(response)]

\* The continuation of request() once the caller's promise resolves:
\* return the response, finally socket.end()
AfterCall(r, response, rec) ==
    [rec EXCEPT !.pc = "done", !.connOpen = FALSE, !.outcome = Return(response)]

\* stream.on("data"): every listener registered so far sees the frame
OnData(r, frame) ==
    /\ req[r].pc \in {"awaitAuth", "awaitCall"}
    /\ frame \in BackendFrames(r)
    /\ LET rec == [req[r] EXCEPT !.received = Append(@, frame)] IN
       IF req[r].pc = "awaitAuth" /\ Matches(frame, AuthId(r))
       THEN req' = [req EXCEPT ![r] = AfterAuth(r, frame, rec)]
       ELSE IF req[r].pc = "awaitCall" /\ Matches(frame, CallId(r))
       THEN req' = [req EXCEPT ![r] = AfterCall(r, frame, rec)]
       ELSE /\ Strays(r) < MaxStray
            /\ req' = [req EXCEPT ![r] = rec]
    /\ UNCHANGED VerifierVars

\* Mutant of OnParseError: the parser drops the line and the wait goes on
OnParseError_SkipsLine(r) ==
    /\ req[r].pc \in {"awaitAuth", "awaitCall"}
    /\ ~req[r].malformed
    /\ req' = [req EXCEPT ![r].malformed = TRUE]
    /\ UNCHANGED VerifierVars

\* stream.on("error"): ndjson.parse() met a line that is not JSON (malformed
\* records that such a line arrived); the pending promise rejects, finally
\* socket.end()
OnParseError(r) ==
    /\ req[r].pc \in {"awaitAuth", "awaitCall"}
    /\ req' = [req EXCEPT ![r].pc = "done", ![r].connOpen = FALSE,
                          ![r].malformed = TRUE,
                          ![r].outcome = Throw(<<"Could not parse row">>)]
    /\ UNCHANGED VerifierVars

\* The backend closes the connection, or the socket fails, while a response is
\* awaited: no listener settles the pending promise
ConnectionLost(r) ==
    /\ req[r].pc \in {"awaitAuth", "awaitCall"}
    /\ req' = [req EXCEPT ![r].pc = "hung", ![r].connOpen = FALSE]
    /\ UNCHANGED VerifierVars

-----------------------------------------------------------------------------
(* readPublicKey: texts are sequences of character codes, buffers sequences *)
(* of bytes                                                                 *)

PemHeader ==      \* "-----BEGIN PUBLIC KEY-----"
    <<45, 45, 45, 45, 45, 66, 69, 71, 73, 78, 32, 80, 85, 66, 76, 73, 67, 32,
      75, 69, 89, 45, 45, 45, 45, 45>>
PemFooter ==      \* "-----END PUBLIC KEY-----"
    <<45, 45, 45, 45, 45, 69, 78, 68, 32, 80, 85, 66, 76, 73, 67, 32,
      75, 69, 89, 45, 45, 45, 45, 45>>

\* Characters String.prototype.trim removes and \s matches: tab, line feed,
\* vertical tab, form feed, carriage return, space
Whitespace == {9, 10, 11, 12, 13, 32}

\* value.trim()
Trim(text) ==
    LET kept == {i \in DOMAIN text : text[i] \notin Whitespace} IN
    IF kept = {} THEN <<>>
    ELSE SubSeq(text, CHOOSE i \in kept : \A k \in kept : i <= k,
                      CHOOSE i \in kept : \A k \in kept : i >= k)

StartsWith(text, prefix) ==
    Len(text) >= Len(prefix) /\ SubSeq(text, 1, Len(prefix)) = prefix

EndsWith(text, suffix) ==
    /\ Len(text) >= Len(suffix)
    /\ SubSeq(text, Len(text) - Len(suffix) + 1, Len(text)) = suffix

\* /^-----BEGIN PUBLIC KEY-----[\s\S]+-----END PUBLIC KEY-----$/.test(content.trim())
isPemPublicKey(content) ==
    LET t == Trim(content) IN
    /\ Len(t) > Len(PemHeader) + Len(PemFooter)
    /\ StartsWith(t, PemHeader)
    /\ EndsWith(t, PemFooter)

\* The character of the base64 alphabet for the six-bit value v
Base64Char(v) ==
    IF v < 26 THEN 65 + v
    ELSE IF v < 52 THEN 71 + v
    ELSE IF v < 62 THEN v - 4
    ELSE IF v = 62 THEN 43
    ELSE 47

\* Buffer.from(text).toString("base64"), the way the configured value is made
RECURSIVE Base64Encode(_)
Base64Encode(bytes) ==
    IF bytes = <<>> THEN <<>>
    ELSE IF Len(bytes) = 1
    THEN <<Base64Char(bytes[1] \div 4), Base64Char((bytes[1] % 4) * 16), 61, 61>>
    ELSE IF Len(bytes) = 2
    THEN <<Base64Char(bytes[1] \div 4),
           Base64Char((bytes[1] % 4) * 16 + bytes[2] \div 16),
           Base64Char((bytes[2] % 16) * 4), 61>>
    ELSE <<Base64Char(bytes[1] \div 4),
           Base64Char((bytes[1] % 4) * 16 + bytes[2] \div 16),
           Base64Char((bytes[2] % 16) * 4 + bytes[3] \div 64),
           Base64Char(bytes[3] % 64)>>
         \o Base64Encode(SubSeq(bytes, 4, Len(bytes)))

\* The base64 text cut into lines of WrapCol characters, each ended by a line feed
RECURSIVE Lines(_)
Lines(text) ==
    IF Len(text) <= WrapCol THEN text \o <<10>>
    ELSE SubSeq(text, 1, WrapCol) \o <<10>> \o Lines(SubSeq(text, WrapCol + 1, Len(text)))

\* The six-bit value of character c for Buffer.from(text, "base64"), which reads
\* the base64 and the base64url alphabet; -1 for any other character
Base64Value(c) ==
    IF c >= 65 /\ c <= 90 THEN c - 65
    ELSE IF c >= 97 /\ c <= 122 THEN c - 71
    ELSE IF c >= 48 /\ c <= 57 THEN c + 4
    ELSE IF c \in {43, 45} THEN 62
    ELSE IF c \in {47, 95} THEN 63
    ELSE -1

\* Mutant of Base64Decode: a last group of fewer than four characters is dropped
Base64Decode_DropsPartialGroup(text) ==
    LET stop == {i \in DOMAIN text : text[i] = 61}
        upto == IF stop = {} THEN text
                ELSE SubSeq(text, 1, (CHOOSE i \in stop : \A k \in stop : i <= k) - 1)
        digits == SelectSeq(upto, LAMBDA c : Base64Value(c) >= 0)
        v == [i \in DOMAIN digits |-> Base64Value(digits[i])]
    IN [j \in 1..(3 * (Len(v) \div 4)) |->
          LET g == 4 * ((j - 1) \div 3) IN
          CASE (j - 1) % 3 = 0 -> v[g + 1] * 4 + v[g + 2] \div 16
            [] (j - 1) % 3 = 1 -> (v[g + 2] % 16) * 16 + v[g + 3] \div 4
            [] OTHER -> (v[g + 3] % 4) * 64 + v[g + 4]]

\* Buffer.from(text, "base64"): characters outside the alphabet are skipped,
\* decoding stops at the first "=", a last group of two or three characters
\* gives one or two bytes
Base64Decode(text) ==
    LET stop == {i \in DOMAIN text : text[i] = 61}
        upto == IF stop = {} THEN text
                ELSE SubSeq(text, 1, (CHOOSE i \in stop : \A k \in stop : i <= k) - 1)
        digits == SelectSeq(upto, LAMBDA c : Base64Value(c) >= 0)
        v == [i \in DOMAIN digits |-> Base64Value(digits[i])]
        rest == Len(v) % 4
    IN [j \in 1..(3 * (Len(v) \div 4) + (IF rest <= 1 THEN 0 ELSE rest - 1)) |->
          LET g == 4 * ((j - 1) \div 3) IN
          CASE (j - 1) % 3 = 0 -> v[g + 1] * 4 + v[g + 2] \div 16
            [] (j - 1) % 3 = 1 -> (v[g + 2] % 16) * 16 + v[g + 3] \div 4
            [] OTHER -> (v[g + 3] % 4) * 64 + v[g + 4]]

\* buffer.toString("utf8") for the buffers of the model: a byte below 128 is
\* its character, any other byte is read as U+FFFD
Utf8ToString(bytes) ==
    [i \in DOMAIN bytes |-> IF bytes[i] < 128 THEN bytes[i] ELSE 65533]

\* path.isAbsolute(text) on POSIX
isAbsolute(text) == text # <<>> /\ text[1] = 47

PemPath == <<47, 112>>          \* "/p"
Base64Path == <<47, 98>>        \* "/b"
JunkPath == <<47, 106>>         \* "/j"
MissingPath == <<47, 109>>      \* "/m"

\* The key kept in the files of the model
FilePem == PemHeader \o <<10, 65, 10>> \o PemFooter

\* The files that exist, with their contents
Files ==
    (PemPath :> (FilePem \o <<10>>))
    @@ (Base64Path :> (Base64Encode(FilePem) \o <<10>>))
    @@ (JunkPath :> <<106, 117, 110, 107, 10>>)

KeyLoaded(pem) == [status |-> "loaded", pem |-> pem, message |-> ""]
KeyFailed(message) == [status |-> "failed", pem |-> <<>>, message |-> message]
KeyUnread == [status |-> "unread", pem |-> <<>>, message |-> ""]

\* readPublicKey(value)
readPublicKey(value) ==
    LET trimmed == Trim(value) IN
    IF isAbsolute(trimmed) /\ trimmed \in DOMAIN Files
    THEN LET fileContent == Trim(Files[trimmed]) IN
         IF ~isPemPublicKey(fileContent)
         THEN KeyFailed("JWT_PUBLIC_KEY file must contain a PEM public key")
         ELSE KeyLoaded(fileContent)
    ELSE IF isPemPublicKey(trimmed)
    THEN KeyLoaded(trimmed)
    ELSE LET decoded == Trim(Utf8ToString(Base64Decode(trimmed))) IN
         IF isPemPublicKey(decoded)
         THEN KeyLoaded(decoded)
         ELSE KeyFailed("Invalid JWT_PUBLIC_KEY format")

\* env.JWT_PUBLIC_KEY as value, written for key in the named encoding
KeyConfig(encoding, key, value) ==
    [encoding |-> encoding, key |-> key, value |-> value]

NoKeyConfig == KeyConfig("unset", <<>>, <<>>)

\* Texts of at most n characters out of chars
Texts(chars, n) == UNION {[1..k -> chars] : k \in 0..n}

Pads == Texts({10, 32}, MaxPad)
Bodies == Texts({10, 47, 65}, MaxBodyLen) \ {<<>>}

\* PEM public keys as an operator may paste them
PemKeys ==
    {lead \o PemHeader \o body \o PemFooter \o trail :
        lead \in Pads, body \in Bodies, trail \in Pads}

JwkJson ==        \* {"kty":"OKP","crv":"Ed25519","x":"AA"}
    <<123, 34, 107, 116, 121, 34, 58, 34, 79, 75, 80, 34, 44, 34, 99, 114,
      118, 34, 58, 34, 69, 100, 50, 53, 53, 49, 57, 34, 44, 34, 120, 34, 58,
      34, 65, 65, 34, 125>>

\* The values of JWT_PUBLIC_KEY explored
KeyConfigs ==
    {KeyConfig("pem", k, k) : k \in PemKeys}
    \cup {KeyConfig("base64", k, Base64Encode(k)) : k \in PemKeys}
    \cup {KeyConfig("base64-lines", k, Lines(Base64Encode(k))) : k \in PemKeys}
    \cup { KeyConfig("file", FilePem, PemPath),
           KeyConfig("file-base64", FilePem, Base64Path),
           KeyConfig("jwk", FilePem, JwkJson),
           KeyConfig("none", <<>>, JunkPath),
           KeyConfig("none", <<>>, MissingPath),
           KeyConfig("none", <<>>, PemHeader \o PemFooter),
           KeyConfig("none", <<>>, Base64Encode(PemHeader \o PemFooter)),
           KeyConfig("none", <<>>, <<32>>) }

\* The configuration of the local test run: the key file's text in base64
TestKeyConfig ==
    KeyConfig("base64", FilePem \o <<10>>, Base64Encode(FilePem \o <<10>>))

\* if (env.JWT_PUBLIC_KEY) jwtVerifier = createJwtVerifier(env.JWT_PUBLIC_KEY);
\* on an error the process exits
Startup ==
    /\ publicKey = KeyUnread
    /\ keyConfig.value # <<>>
    /\ publicKey' = readPublicKey(keyConfig.value)
    /\ jwtEnabled' = (publicKey'.status = "loaded")
    /\ UNCHANGED <<now, usedJtis, lastCleanup, started, req, accepted, everRecorded,
                   keyConfig>>

-----------------------------------------------------------------------------

Init ==
    /\ now = T0
    /\ jwtEnabled \in BOOLEAN
    /\ usedJtis = <<>>
    /\ lastCleanup = 0
    /\ started = 0
    /\ req = [r \in Slots |-> IdleReq]
    /\ accepted = {}
    /\ everRecorded = {}
    /\ keyConfig = IF jwtEnabled THEN TestKeyConfig ELSE NoKeyConfig
    /\ publicKey = IF jwtEnabled THEN readPublicKey(keyConfig.value) ELSE KeyUnread

Next ==
    \/ ClockTick
    \/ \E r \in DOMAIN req, i \in Inputs(jwtEnabled) : Handle(r, i[1], i[2], i[3])
    \/ \E r \in DOMAIN req : ConnectOk(r)
    \/ \E r \in DOMAIN req : ConnectError(r)
    \/ \E r \in DOMAIN req : \E f \in BackendFrames(r) : OnData(r, f)
    \/ \E r \in DOMAIN req : OnParseError(r)
    \/ \E r \in DOMAIN req : ConnectionLost(r)
    \/ \E r \in DOMAIN req : Respond(r)

Spec == Init /\ [][Next]_vars

\* Scheduling the runtime guarantees: a connection attempt ends in "connect" or
\* "error", and Fastify replies once the handler has settled.  Nothing obliges
\* the backend to send a frame or to close the connection.
Fairness ==
    /\ WF_vars(\E r \in Slots : ConnectOk(r) \/ ConnectError(r))
    /\ WF_vars(\E r \in Slots : Respond(r))

FairSpec == Spec /\ Fairness

\* The start of the process: the configured value is read once
KeyInit ==
    /\ now = T0
    /\ jwtEnabled = FALSE
    /\ usedJtis = <<>>
    /\ lastCleanup = 0
    /\ started = 0
    /\ req = [r \in Slots |-> IdleReq]
    /\ accepted = {}
    /\ everRecorded = {}
    /\ keyConfig \in KeyConfigs \cup {NoKeyConfig}
    /\ publicKey = KeyUnread

KeyNext == Startup

KeySpec == KeyInit /\ [][KeyNext]_vars

-----------------------------------------------------------------------------
(* Two requests in flight at once: Fastify starts a second handler while the *)
(* first one is suspended at an await of jamulusClient.request               *)

ConcSlots == {1, 2}

\* The requests explored with two handlers in flight: signed tokens for
\* BaseMethod under the valid key
ConcInputs ==
    {ValidKey} \X {BaseMethod}
        \X {GoodJwt("jti-a", ExpLater), GoodJwt("jti-b", ExpLater)}

ConcInit ==
    /\ now = T0
    /\ jwtEnabled = TRUE
    /\ usedJtis = <<>>
    /\ lastCleanup = 0
    /\ started = 0
    /\ req = [r \in ConcSlots |-> IdleReq]
    /\ accepted = {}
    /\ everRecorded = {}
    /\ keyConfig = TestKeyConfig
    /\ publicKey = readPublicKey(keyConfig.value)

\* Each disjunct is one turn of the event loop: a handler runs from the
\* arrival of its request, or from the event that resumes it, to its next await.
\* The two requests arrive within the same second: the clock stands still
ConcNext ==
    \/ \E r \in DOMAIN req, i \in ConcInputs : Handle(r, i[1], i[2], i[3])
    \/ \E r \in DOMAIN req : ConnectOk(r)
    \/ \E r \in DOMAIN req : ConnectError(r)
    \/ \E r \in DOMAIN req : \E f \in BackendFrames(r) : OnData(r, f)
    \/ \E r \in DOMAIN req : OnParseError(r)
    \/ \E r \in DOMAIN req : ConnectionLost(r)
    \/ \E r \in DOMAIN req : Respond(r)

ConcSpec == ConcInit /\ [][ConcNext]_vars

-----------------------------------------------------------------------------
(* The HTTP client goes away while its request is being handled *)

\* The HTTP request of slot r is cancelled (the client closes its connection)
\* while the backend call is in flight.  The handler registers no listener on
\* the request or the reply, and request() takes no abort signal: cancelled
\* records the event, nothing else changes
Cancel(r) ==
    /\ req[r].pc \in {"connecting", "awaitAuth", "awaitCall"}
    /\ ~req[r].cancelled
    /\ req' = [req EXCEPT ![r].cancelled = TRUE]
    /\ UNCHANGED VerifierVars

CancelInit == Init /\ jwtEnabled = FALSE

CancelNext ==
    \/ \E r \in DOMAIN req, i \in PlainInputs : Handle(r, i[1], i[2], i[3])
    \/ \E r \in DOMAIN req : ConnectOk(r)
    \/ \E r \in DOMAIN req : ConnectError(r)
    \/ \E r \in DOMAIN req : \E f \in BackendFrames(r) : OnData(r, f)
    \/ \E r \in DOMAIN req : OnParseError(r)
    \/ \E r \in DOMAIN req : ConnectionLost(r)
    \/ \E r \in DOMAIN req : Cancel(r)
    \/ \E r \in DOMAIN req : Respond(r)

CancelSpec == CancelInit /\ [][CancelNext]_vars

CancelFairSpec == CancelSpec /\ Fairness

-----------------------------------------------------------------------------
(* Vocabulary of the properties *)

\* The X-API-Key header names a configured key
KeyOk(k) == k.type = "string" /\ k.val \in ApiKeys

\* A three-segment EdDSA token whose signature verifies
WellSigned(b) ==
    b.type = "string" /\ ~b.empty /\ b.nseg = 3 /\ b.alg = "EdDSA" /\ b.sigOk

\* This step is the handler taking up a request on slot r
Handles(r) == req[r].pc = "idle" /\ req'[r].pc # "idle"

\* This step is the handler passing the request of slot r to the verifier
Verifies(r) == Handles(r) /\ jwtEnabled /\ KeyOk(req'[r].apiKey)

ThrowsMessage(r, msg) == req[r].outcome = Throw(<<msg>>)

\* Envelopes written for r's call other than the jamulus/apiAuth envelope
CallerEnvelopes(r) ==
    {i \in DOMAIN req[r].written : req[r].written[i].method # AuthMethod}

\* For request record q: no backend connection was attempted, none is open,
\* nothing was written
NoBackendContact(q) ==
    /\ q.attempts = 0
    /\ ~q.connOpen
    /\ q.written = <<>>

\* Request record q was refused by the handler before any backend contact
RefusedUpFront(q) ==
    /\ q.pc = "done"
    /\ q.outcome.kind = "throw"
    /\ NoBackendContact(q)

-----------------------------------------------------------------------------
\* C1: Replay protection.  Whenever the verifier is handed a validly signed
\* token, (a) the verification succeeds only if that token has never been
\* accepted before, and (b) if the token has been accepted before and now < exp,
\* the verification fails with 'JWT has already been used'; this holds however
\* the verifications interleave with clock steps and cache sweeps.
C1_ReplayProtection ==
    [][\A r \in Slots :
          (Verifies(r) /\ WellSigned(req'[r].body))
          => LET tok == req'[r].body IN
             /\ req'[r].verified => tok \notin accepted
             /\ (tok \in accepted /\ now < tok.payload.exp.val)
                   => req'[r].outcome = Throw(<<"JWT has already been used">>)]_vars

\* C1 witness: an accepted token is presented again inside its exp window and
\* refused as a replay, after the clock has advanced and a sweep has removed
\* the entry of another token accepted before.
C1_Witness ==
    \E r \in DOMAIN req :
        /\ ThrowsMessage(r, "JWT has already been used")
        /\ req[r].body \in accepted
        /\ now < req[r].body.payload.exp.val
        /\ GoodJwt("jti-b", ExpSoon) \in accepted
        /\ "jti-b" \notin DOMAIN usedJtis

-----------------------------------------------------------------------------
\* C2: Handshake ordering.  On every connection the first envelope written is
\* the jamulus/apiAuth envelope carrying the shared secret, on the one
\* connection the call has opened; any further envelope is the caller's, and it
\* is present only if a frame with the auth envelope's id and without error has
\* been received on that connection.
C2_HandshakeOrder ==
    \A r \in DOMAIN req :
        LET w == req[r].written
            f == req[r].received
        IN /\ w # <<>> =>
                /\ req[r].attempts = 1
                /\ w[1].method = AuthMethod
                /\ w[1].params = [secret |-> JamulusSecret]
           /\ Len(w) >= 2 =>
                /\ Len(w) = 2
                /\ w[2].method = req[r].method
                /\ w[2].params = req[r].params
                /\ \E k \in DOMAIN f : f[k].id = w[1].id /\ "error" \notin DOMAIN f[k]

\* C2 witness: the caller's envelope has been written after a foreign frame and
\* then the successful auth response arrived.
C2_Witness ==
    \E r \in DOMAIN req :
        /\ Len(req[r].written) = 2
        /\ Len(req[r].received) = 2
        /\ req[r].received[1].id = StrayId
        /\ req[r].received[2] = ResultFrame(req[r].written[1].id, "ok")

-----------------------------------------------------------------------------
\* A finished call has no open connection
ClosedWhenFinished ==
    \A r \in DOMAIN req : req[r].pc = "done" => ~req[r].connOpen

\* C3: Connection release.  No call has finished while its connection is still
\* open, and every connection that is open is eventually closed.
C3_ConnectionRelease ==
    /\ [](\A r \in Slots : req[r].pc = "done" => ~req[r].connOpen)
    /\ \A r \in Slots : [](req[r].connOpen => <>(~req[r].connOpen))

-----------------------------------------------------------------------------
\* C4: Expiry cap.  A request in signed-token mode whose validly signed token
\* has exp more than ExpCapSeconds past the clock is refused by the handler
\* and never causes any backend contact.
C4_ExpiryCap ==
    \A r \in DOMAIN req :
        ( /\ req[r].pc # "idle"
          /\ jwtEnabled
          /\ KeyOk(req[r].apiKey)
          /\ WellSigned(req[r].body)
          /\ req[r].body.payload.exp.type = "number"
          /\ req[r].body.payload.exp.val - now > ExpCapSeconds )
        => RefusedUpFront(req[r])

-----------------------------------------------------------------------------
\* C5: Method binding.  Whenever the verifier is handed a validly signed token
\* inside its validity window (exp > now, nbf absent or <= now) whose jti is
\* unused (no cache entry, or one that has expired) and whose method differs
\* from the endpoint's method in any character, letter case included, the
\* request ends at once with 'JWT method mismatch'; and a request that ended so
\* has made no backend contact.
C5_MethodBinding ==
    [][\A r \in Slots :
          LET q == req'[r]
              p == q.body.payload
          IN /\ ( /\ Verifies(r)
                  /\ WellSigned(q.body)
                  /\ p.exp.type = "number" /\ p.exp.val > now
                  /\ (p.nbf.type = "undefined" \/ p.nbf.val <= now)
                  /\ p.jti.type = "string" /\ p.jti.val # ""
                  /\ (p.jti.val \in DOMAIN usedJtis => usedJtis[p.jti.val] <= now)
                  /\ p.method.type = "string" /\ p.method.val # ""
                  /\ p.method.val # q.method )
                => q.outcome = Throw(<<"JWT method mismatch">>)
             /\ q.outcome = Throw(<<"JWT method mismatch">>) => RefusedUpFront(q)]_vars

\* C5 witness: the first request ever presents a fresh token for
\* jamulus/getMode on the endpoint jamulus/getmode and is refused.
C5_Witness ==
    \E r \in DOMAIN req :
        /\ req[r].n = 1
        /\ req[r].body = GoodJwt("jti-b", ExpLater)
        /\ req[r].method = CaseMethod
        /\ ThrowsMessage(r, "JWT method mismatch")
        /\ NoBackendContact(req[r])

-----------------------------------------------------------------------------
\* C6: Authentication rejection.  If the first frame carrying the auth
\* envelope's id carries error, the call has ended by throwing an error whose
\* message contains the backend's message, no caller envelope was written on
\* the connection, and the connection is closed.
C6_AuthRejection ==
    \A r \in DOMAIN req :
        LET f == req[r].received
            i == FirstWithId(f, 2 * req[r].n - 1)
        IN (req[r].pc # "idle" /\ i # 0 /\ "error" \in DOMAIN f[i])
           => /\ req[r].pc = "done"
              /\ req[r].outcome.kind = "throw"
              /\ \E k \in DOMAIN req[r].outcome.message :
                     req[r].outcome.message[k] = f[i].error.message
              /\ CallerEnvelopes(r) = {}
              /\ ~req[r].connOpen

\* C6 witness: the backend has answered the auth envelope with 'bad secret'
\* and the call has failed.
C6_Witness ==
    \E r \in DOMAIN req :
        /\ req[r].pc = "done"
        /\ req[r].received # <<>>
        /\ req[r].received[Len(req[r].received)] =
              ErrorFrame(req[r].written[1].id, -32000, "bad secret")
        /\ req[r].outcome = Throw(<<"Unable to authenticate: ", "bad secret">>)

-----------------------------------------------------------------------------
\* C7: Credential gate.  A request whose X-API-Key header is missing, or is
\* not one of the configured keys, has been refused with an error and has made
\* no backend connection attempt.
C7_CredentialGate ==
    \A r \in DOMAIN req :
        (req[r].pc # "idle" /\ ~KeyOk(req[r].apiKey)) => RefusedUpFront(req[r])

\* C7 witness: a request with an unknown key and an otherwise acceptable token
\* has been refused without a connection attempt.
C7_Witness ==
    \E r \in DOMAIN req :
        /\ req[r].apiKey = Str("invalid-api-key-xyz")
        /\ req[r].body = GoodJwt("jti-a", ExpLater)
        /\ ThrowsMessage(r, "Invalid X-API-Key header")
        /\ req[r].attempts = 0

-----------------------------------------------------------------------------
\* C8: Error pass-through.  If the first frame carrying the caller envelope's
\* id carries error, the call has returned exactly that frame, and Fastify
\* answers it with status 200.
C8_ErrorPassThrough ==
    \A r \in DOMAIN req :
        LET f == req[r].received
            i == FirstWithId(f, 2 * req[r].n)
        IN (req[r].pc # "idle" /\ i # 0 /\ "error" \in DOMAIN f[i])
           => /\ req[r].pc = "done"
              /\ req[r].outcome = Return(f[i])
              /\ HttpStatus(req[r].outcome) = 200

\* C8 witness: the backend has answered the caller's envelope with an error
\* object and the call has returned it.
C8_Witness ==
    \E r \in DOMAIN req :
        /\ Len(req[r].written) = 2
        /\ req[r].outcome =
              Return(ErrorFrame(req[r].written[2].id, -32000, "bad secret"))

-----------------------------------------------------------------------------
\* C9: Response correlation.  Whatever the call returns is the first received
\* frame whose id is the id of the caller's envelope, which is not the auth
\* envelope's id.
C9_ResponseCorrelation ==
    \A r \in DOMAIN req :
        req[r].outcome.kind = "return"
        => LET f == req[r].received
               w == req[r].written
           IN /\ Len(w) = 2
              /\ w[2].id # w[1].id
              /\ FirstWithId(f, w[2].id) # 0
              /\ req[r].outcome.value = f[FirstWithId(f, w[2].id)]
              /\ req[r].outcome.value.id = w[2].id

\* C9 witness: between the auth response and the returned frame a second frame
\* with the auth envelope's id arrived and was not returned.
C9_Witness ==
    \E r \in DOMAIN req :
        /\ req[r].outcome.kind = "return"
        /\ Len(req[r].received) = 3
        /\ req[r].received[2].id = req[r].written[1].id
        /\ req[r].outcome.value = req[r].received[3]

-----------------------------------------------------------------------------
\* C10: Signed-token mode is mandatory.  With a verifier configured, a request
\* with a valid API key whose body is a JSON object with params and without a
\* token has been refused with an error and has made no backend contact.
C10_SignedModeMandatory ==
    \A r \in DOMAIN req :
        ( /\ req[r].pc # "idle"
          /\ jwtEnabled
          /\ KeyOk(req[r].apiKey)
          /\ req[r].body.type = "object"
          /\ ~req[r].body.jwt
          /\ req[r].body.params.type = "object" )
        => RefusedUpFront(req[r])

\* C10 witness: {"params": {...}} sent with a valid key in signed-token mode has
\* been refused.
C10_Witness ==
    \E r \in DOMAIN req :
        /\ jwtEnabled
        /\ req[r].apiKey = ValidKey
        /\ req[r].body = ObjectBody(Obj("{x:1}"), FALSE)
        /\ ThrowsMessage(r, "Expected JWT body")
        /\ NoBackendContact(req[r])

-----------------------------------------------------------------------------
\* C11: Signed-token request shape.  With a verifier configured, whenever the
\* handler takes up a request with a valid API key whose body is a JSON object
\* with a jwt member holding a validly signed token for the endpoint's method,
\* inside its validity window, with a jti that has no live cache entry and
\* with well-shaped params, the request is accepted and forwarded: the handler
\* has not thrown and the backend connection is being opened.
C11_SignedRequestShape ==
    [][\A r \in Slots :
          LET q == req'[r]
              p == q.body.payload
          IN ( /\ Verifies(r)
               /\ q.body.type = "object" /\ q.body.jwt
               /\ ~q.body.empty /\ q.body.nseg = 3
               /\ q.body.alg = "EdDSA" /\ q.body.sigOk
               /\ p.exp.type = "number" /\ p.exp.val > now
               /\ (p.nbf.type = "undefined" \/ p.nbf.val <= now)
               /\ p.jti.type = "string" /\ p.jti.val # ""
               /\ (p.jti.val \in DOMAIN usedJtis => usedJtis[p.jti.val] <= now)
               /\ p.method = Str(q.method)
               /\ p.params.type \in {"undefined", "object"} )
             => /\ q.outcome.kind # "throw"
                /\ q.attempts = 1]_vars

-----------------------------------------------------------------------------
\* The request record q, taken up at clock reading t with replay cache cache,
\* is valid: a configured API key and, in signed-token mode, a validly signed
\* token for the endpoint's method inside its validity window, with
\* well-shaped params and a jti that has no live entry in the cache
ValidRequest(q, cache, t) ==
    /\ KeyOk(q.apiKey)
    /\ jwtEnabled =>
          LET p == q.body.payload IN
          /\ WellSigned(q.body)
          /\ p.exp.type = "number" /\ p.exp.val > t
          /\ (p.nbf.type = "undefined" \/ p.nbf.val <= t)
          /\ p.jti.type = "string" /\ p.jti.val # ""
          /\ (p.jti.val \in DOMAIN cache => cache[p.jti.val] <= t)
          /\ p.method = Str(q.method)
          /\ p.params.type \in {"undefined", "object"}

-----------------------------------------------------------------------------
\* C13: Rejection status and message.  A request without an X-API-Key value
\* (header absent or empty) has been answered with status 500 and the message
\* 'Missing X-API-Key header'; a request whose X-API-Key value is not one of
\* the configured keys has been answered with status 500 and the message
\* 'Invalid X-API-Key header'; and each message occurs in its own case only.
C13_RejectionMessages ==
    \A r \in DOMAIN req :
        LET q == req[r]
            absent == q.apiKey.type = "undefined" \/ q.apiKey = Str("")
            unknown == q.apiKey.type = "string" /\ q.apiKey.val # ""
                       /\ q.apiKey.val \notin ApiKeys
        IN q.pc # "idle"
           => /\ absent => /\ q.outcome = Throw(<<"Missing X-API-Key header">>)
                            /\ HttpStatus(q.outcome) = 500
              /\ unknown => /\ q.outcome = Throw(<<"Invalid X-API-Key header">>)
                             /\ HttpStatus(q.outcome) = 500
              /\ q.outcome = Throw(<<"Missing X-API-Key header">>) => absent
              /\ q.outcome = Throw(<<"Invalid X-API-Key header">>) => unknown

\* C13 witness: a request sent without the header has been answered with
\* status 500 and 'Missing X-API-Key header'.
C13_Witness ==
    \E r \in DOMAIN req :
        /\ req[r].pc = "done"
        /\ req[r].apiKey = UndefS
        /\ ThrowsMessage(r, "Missing X-API-Key header")
        /\ HttpStatus(req[r].outcome) = 500

-----------------------------------------------------------------------------
\* C14: Error classes.  A request refused for its credential or its token
\* (the handler has thrown before any backend contact) is answered with a
\* client-error status (4xx), and a request that failed after backend contact
\* (connect failure, authentication handshake, framing) with a server-error
\* status (5xx), so that the two classes are distinct.
C14_ErrorClasses ==
    \A r \in DOMAIN req :
        (req[r].pc = "done" /\ req[r].outcome.kind = "throw")
        => /\ NoBackendContact(req[r]) => HttpStatus(req[r].outcome) \in 400..499
           /\ req[r].attempts = 1 => HttpStatus(req[r].outcome) \in 500..599

-----------------------------------------------------------------------------
\* C15: Key loader round-trip.  For every PEM public key k, once the
\* configured value has been read: the value k itself (inline PEM) has loaded,
\* and the base64 encoding of k (in one piece or cut into lines) has loaded
\* exactly what readPublicKey returns for k itself, namely the text of k
\* without the surrounding whitespace.
C15_KeyRoundTrip ==
    publicKey # KeyUnread
    => /\ keyConfig.encoding = "pem"
            => publicKey = KeyLoaded(Trim(keyConfig.key))
       /\ keyConfig.encoding \in {"base64", "base64-lines"}
            => /\ publicKey = readPublicKey(keyConfig.key)
               /\ publicKey.status = "loaded"
               /\ publicKey.pem = Trim(keyConfig.key)

\* C15 witness: a key pasted with whitespace around it, whose length leaves a
\* partial last base64 group, has been configured in base64 and has loaded.
C15_Witness ==
    /\ keyConfig.encoding = "base64"
    /\ keyConfig.value = Base64Encode(keyConfig.key)
    /\ Len(keyConfig.key) % 3 # 0
    /\ Head(keyConfig.key) \in Whitespace
    /\ publicKey.status = "loaded"
    /\ publicKey.pem # keyConfig.key

-----------------------------------------------------------------------------
\* C16: Key loader accepted encodings.  Once the configured value has been
\* read, a value in any of the four documented encodings (absolute path to a
\* PEM file, inline PEM, base64-encoded PEM, JWK JSON string) has loaded, and
\* the load has failed only for a value in none of them.
C16_AcceptedEncodings ==
    LET documented == {"file", "pem", "base64", "base64-lines", "jwk"} IN
    publicKey # KeyUnread
    => /\ keyConfig.encoding \in documented => publicKey.status = "loaded"
       /\ publicKey.status = "failed" => keyConfig.encoding \notin documented

-----------------------------------------------------------------------------
\* C17: Bounded replay cache.  Every entry jti -> exp of the replay cache was
\* inserted at a clock reading t <= now with exp <= t + ExpCapSeconds, hence
\* in every state no entry lies more than ExpCapSeconds past the clock.
C17_BoundedReplayCache ==
    \A j \in DOMAIN usedJtis : usedJtis[j] <= now + ExpCapSeconds

-----------------------------------------------------------------------------
\* C18: Validation order.  Whenever the verifier is handed a body, the outcome
\* is the error of the earliest violated step in the order: body is a
\* non-empty string, three segments, algorithm, signature, exp present, exp in
\* the future, nbf, jti present, replay, method present, method equal, params
\* shape; and the verification succeeds when no step is violated.
C18_ValidationOrder ==
    [][\A r \in Slots :
          Verifies(r)
          => LET b == req'[r].body
                 p == b.payload
                 steps ==
                   << <<b.type # "string" \/ b.empty, "Expected JWT body">>,
                      <<b.nseg # 3, "Invalid JWT format">>,
                      <<b.alg # "EdDSA", "Invalid JWT algorithm">>,
                      <<~b.sigOk, "Invalid JWT signature">>,
                      <<p.exp.type # "number", "JWT payload missing exp">>,
                      <<p.exp.val <= now, "JWT expired">>,
                      <<p.nbf.type = "number" /\ p.nbf.val > now, "JWT not yet valid">>,
                      <<p.jti.type # "string" \/ p.jti.val = "", "JWT payload missing jti">>,
                      <<p.jti.val \in DOMAIN usedJtis /\ usedJtis[p.jti.val] > now,
                        "JWT has already been used">>,
                      <<p.method.type # "string" \/ p.method.val = "",
                        "JWT payload missing method">>,
                      <<p.method.val # req'[r].method, "JWT method mismatch">>,
                      <<p.params.type \notin {"undefined", "object"},
                        "JWT params must be an object">> >>
                 violated == {i \in DOMAIN steps : steps[i][1]}
             IN IF violated = {}
                THEN req'[r].verified /\ req'[r].outcome = Pending
                ELSE req'[r].outcome =
                        Throw(<<steps[CHOOSE i \in violated :
                                         \A k \in violated : i <= k][2]>>)]_vars

\* C18 witness: a token accepted before is presented again, inside its exp
\* window, on the endpoint of another method, and is refused as a replay.
C18_Witness ==
    \E r \in DOMAIN req :
        /\ req[r].body \in accepted
        /\ now < req[r].body.payload.exp.val
        /\ req[r].body.payload.method.val # req[r].method
        /\ ThrowsMessage(r, "JWT has already been used")

-----------------------------------------------------------------------------
\* C19: Record-then-continue.  Whenever the verifier is handed a validly
\* signed token, (a) if it is refused for a missing method, a method mismatch
\* or malformed params, the cache afterwards maps its jti to its exp; and
\* (b) if the token's jti was recorded by an earlier verification, accepted or
\* refused, and now < exp, the verification fails with 'JWT has already been
\* used', also on the endpoint of the method the token names.
C19_RecordThenContinue ==
    [][\A r \in Slots :
          (Verifies(r) /\ WellSigned(req'[r].body))
          => LET tok == req'[r].body
                 p == tok.payload
             IN /\ req'[r].outcome \in { Throw(<<"JWT payload missing method">>),
                                         Throw(<<"JWT method mismatch">>),
                                         Throw(<<"JWT params must be an object">>) }
                     => /\ p.jti.val \in DOMAIN usedJtis'
                        /\ usedJtis'[p.jti.val] = p.exp.val
                /\ (tok \in everRecorded /\ now < p.exp.val)
                     => req'[r].outcome = Throw(<<"JWT has already been used">>)]_vars

\* C19 witness: a token that was refused on another method's endpoint, and
\* never accepted, is presented on the endpoint of its own method inside its
\* exp window and is refused as a replay.
C19_Witness ==
    \E r \in DOMAIN req :
        /\ req[r].body \in everRecorded \ accepted
        /\ now < req[r].body.payload.exp.val
        /\ req[r].body.payload.method = Str(req[r].method)
        /\ ThrowsMessage(r, "JWT has already been used")

-----------------------------------------------------------------------------
\* C20: Expired entries are unused.  Whenever the verifier is handed a body,
\* (a) if it is a validly signed token, valid for the endpoint and inside its
\* validity window, whose jti has a cache entry e <= now, the verification
\* succeeds and the cache afterwards maps the jti to the token's exp; and
\* (b) the outcome is the one verify gives on the same cache both when the
\* sweep runs in this call and when it does not.
C20_ExpiredEntriesUnused ==
    [][\A r \in Slots :
          Verifies(r)
          => LET q == req'[r]
                 p == q.body.payload
                 swept == verify(q.body, q.method, usedJtis, now - CleanupInterval, now)
                 unswept == verify(q.body, q.method, usedJtis, now, now)
             IN /\ ( /\ WellSigned(q.body)
                     /\ p.exp.type = "number" /\ p.exp.val > now
                     /\ (p.nbf.type = "undefined" \/ p.nbf.val <= now)
                     /\ p.jti.type = "string" /\ p.jti.val # ""
                     /\ p.jti.val \in DOMAIN usedJtis
                     /\ usedJtis[p.jti.val] <= now
                     /\ p.method = Str(q.method)
                     /\ p.params.type \in {"undefined", "object"} )
                   => /\ q.verified
                      /\ q.outcome = Pending
                      /\ usedJtis'[p.jti.val] = p.exp.val
                /\ swept.ok = unswept.ok
                /\ swept.message = unswept.message
                /\ swept.payload = unswept.payload
                /\ q.verified = swept.ok
                /\ ~swept.ok => q.outcome = Throw(swept.message)]_vars

\* C20 witness: a token with jti-a was accepted at the start; one clock step
\* later, with no sweep since and the old entry expired but still in the
\* cache, another token with jti-a has been accepted and its exp recorded.
C20_Witness ==
    \E r \in DOMAIN req :
        /\ now = T0 + Tick
        /\ lastCleanup = T0
        /\ GoodJwt("jti-a", ExpSoon) \in accepted
        /\ req[r].verified
        /\ req[r].body.payload.jti = Str("jti-a")
        /\ req[r].body.payload.exp.val > now
        /\ "jti-a" \in DOMAIN usedJtis
        /\ usedJtis["jti-a"] = req[r].body.payload.exp.val

-----------------------------------------------------------------------------
\* C21: Cache coverage.  For every token whose jti a verification has
\* recorded, in every state with now < exp the replay cache holds an entry for
\* that jti, and the entry is the token's exp (so it is greater than now):
\* no sweep and no later verification has removed or shortened it.
C21_CacheCoverage ==
    \A tok \in everRecorded :
        now < tok.payload.exp.val
        => /\ tok.payload.jti.val \in DOMAIN usedJtis
           /\ usedJtis[tok.payload.jti.val] = tok.payload.exp.val
           /\ usedJtis[tok.payload.jti.val] > now

\* C21 witness: after a second sweep the entry of a token recorded earlier and
\* still inside its window is in the cache, while the entry of an expired
\* token has been removed.
C21_Witness ==
    /\ lastCleanup = T0 + 2 * Tick
    /\ GoodJwt("jti-a", ExpFar) \in everRecorded
    /\ "jti-a" \in DOMAIN usedJtis
    /\ usedJtis["jti-a"] = ExpFar
    /\ GoodJwt("jti-b", ExpSoon) \in everRecorded
    /\ "jti-b" \notin DOMAIN usedJtis

-----------------------------------------------------------------------------
\* This step is a verification on slot r that reaches cleanupReplayCache: the
\* body is a validly signed token with a numeric exp > now, nbf absent or
\* not in the future, and a jti
ReachesReplayStep(r) ==
    /\ Verifies(r)
    /\ WellSigned(req'[r].body)
    /\ LET p == req'[r].body.payload IN
       /\ p.exp.type = "number" /\ p.exp.val > now
       /\ ~(p.nbf.type = "number" /\ p.nbf.val > now)
       /\ p.jti.type = "string" /\ p.jti.val # ""

\* C22: Sweep exactness.  In a step in which cleanupReplayCache sweeps (the
\* last-sweep time becomes now), every entry the cache held with exp <= now
\* is gone, every entry it held with exp > now is still there unchanged, and
\* the only entry that may be new or rewritten is that of the token being
\* verified.
C22_SweepExactness ==
    [][(lastCleanup' # lastCleanup)
       => \E r \in Slots :
             /\ ReachesReplayStep(r)
             /\ lastCleanup' = now
             /\ LET own == req'[r].body.payload.jti.val IN
                /\ \A j \in DOMAIN usedJtis :
                      /\ usedJtis[j] > now
                            => j \in DOMAIN usedJtis' /\ usedJtis'[j] = usedJtis[j]
                      /\ (usedJtis[j] <= now /\ j # own) => j \notin DOMAIN usedJtis'
                      /\ (usedJtis[j] <= now /\ j = own /\ j \in DOMAIN usedJtis')
                            => usedJtis'[j] = req'[r].body.payload.exp.val
                /\ \A j \in DOMAIN usedJtis' \ DOMAIN usedJtis : j = own]_vars

\* C22 witness: the verification of a replayed token at the second sweep time
\* has removed the entry that expired at that very second and kept the live
\* one.
C22_Witness ==
    \E r \in DOMAIN req :
        /\ now = T0 + 2 * Tick
        /\ lastCleanup = now
        /\ req[r].body = GoodJwt("jti-b", ExpFar)
        /\ ThrowsMessage(r, "JWT has already been used")
        /\ GoodJwt("jti-a", ExpLater) \in everRecorded
        /\ DOMAIN usedJtis = {"jti-b"}

-----------------------------------------------------------------------------
\* C23: Sweep throttling.  The last-sweep time changes only in a verification
\* that reaches the replay step, and only when at least CleanupInterval
\* seconds have passed since the previous sweep; an entry leaves the cache
\* only in such a step; and a step that is not a verification changes neither
\* the cache nor the last-sweep time.
C23_SweepThrottling ==
    [][/\ (lastCleanup' # lastCleanup)
            => /\ \E r \in Slots : ReachesReplayStep(r)
               /\ now - lastCleanup >= CleanupInterval
               /\ lastCleanup' = now
       /\ (\E j \in DOMAIN usedJtis : j \notin DOMAIN usedJtis')
            => lastCleanup' # lastCleanup
       /\ (~\E r \in Slots : Verifies(r))
            => usedJtis' = usedJtis /\ lastCleanup' = lastCleanup]_vars

\* C23 witness: one clock step after the first sweep a token that is valid
\* only from now on has been accepted without a sweep, and the expired entry
\* of another jti is still in the cache.
C23_Witness ==
    \E r \in DOMAIN req :
        /\ now = T0 + Tick
        /\ lastCleanup = T0
        /\ req[r].verified
        /\ req[r].body.payload.nbf = Num(T0 + Tick)
        /\ "jti-b" \in DOMAIN usedJtis
        /\ usedJtis["jti-b"] <= now

-----------------------------------------------------------------------------
\* Slots whose request carries token tok and has passed verification
VerifiedWith(tok) == {r \in DOMAIN req : req[r].verified /\ req[r].body = tok}

\* C24: Atomic lookup-then-record.  With two requests handled concurrently,
\* under every interleaving of their handler steps: a request passes
\* verification only if no request with the same token has passed before; at
\* most one request in flight with a given token is verified; a request that
\* is not verified has written nothing to the backend; and at most one caller
\* envelope for a token is written.
C24_AtomicLookupThenRecord ==
    [][/\ \A r \in DOMAIN req :
             (Handles(r) /\ req'[r].verified) => req'[r].body \notin accepted
       /\ \A r \in DOMAIN req : (~req[r].verified) => req[r].written = <<>>
       /\ \A tok \in GoodJwts :
             /\ Cardinality(VerifiedWith(tok)) <= 1
             /\ \A r \in VerifiedWith(tok) :
                   Cardinality(CallerEnvelopes(r)) <= 1]_vars

\* C24 witness: two requests with the same token are in flight; the first
\* awaits the backend's answer to its caller envelope, the second has been
\* refused as a replay.
C24_Witness ==
    \E r1, r2 \in DOMAIN req :
        /\ r1 # r2
        /\ req[r1].body = GoodJwt("jti-a", ExpLater)
        /\ req[r2].body = req[r1].body
        /\ req[r1].verified
        /\ req[r1].pc = "awaitCall"
        /\ Cardinality(CallerEnvelopes(r1)) = 1
        /\ ThrowsMessage(r2, "JWT has already been used")
        /\ req[r2].written = <<>>

-----------------------------------------------------------------------------
\* C25: Validity window.  A verification succeeds only for a token with a
\* numeric exp > now and with nbf absent or nbf <= now; a validly signed
\* token with a numeric exp <= now is refused with 'JWT expired', one with
\* exp > now and a numeric nbf > now is refused with 'JWT not yet valid', and
\* in both cases the replay cache and the last-sweep time are left unchanged.
C25_ValidityWindow ==
    [][\A r \in Slots :
          Verifies(r) =>
             LET q == req'[r]
                 p == q.body.payload
             IN /\ q.verified
                     => /\ p.exp.type = "number" /\ p.exp.val > now
                        /\ p.nbf.type = "undefined"
                             \/ (p.nbf.type = "number" /\ p.nbf.val <= now)
                /\ (WellSigned(q.body) /\ p.exp.type = "number" /\ p.exp.val <= now)
                     => /\ q.outcome = Throw(<<"JWT expired">>)
                        /\ RefusedUpFront(q)
                        /\ usedJtis' = usedJtis /\ lastCleanup' = lastCleanup
                /\ (/\ WellSigned(q.body)
                    /\ p.exp.type = "number" /\ p.exp.val > now
                    /\ p.nbf.type = "number" /\ p.nbf.val > now)
                     => /\ q.outcome = Throw(<<"JWT not yet valid">>)
                        /\ RefusedUpFront(q)
                        /\ usedJtis' = usedJtis /\ lastCleanup' = lastCleanup]_vars

\* C25 witness: a token presented in the very second of its exp has been
\* refused as expired, with another request's entry in the cache.
C25_Witness ==
    \E r \in DOMAIN req :
        /\ ThrowsMessage(r, "JWT expired")
        /\ WellSigned(req[r].body)
        /\ req[r].body.payload.exp.val = now
        /\ usedJtis # <<>>

-----------------------------------------------------------------------------
\* C26: Params shape and default.  A validly signed token whose params is
\* present but is null, an array or a scalar is never accepted: the request is
\* refused before any backend contact.  For an accepted token the params
\* forwarded to the backend are exactly the token's params object, or the empty
\* object when the token has no params.
C26_ParamsShapeAndDefault ==
    [][\A r \in Slots :
          LET q == req'[r]
              p == q.body.payload
          IN /\ (Verifies(r) /\ WellSigned(q.body)
                    /\ p.params.type \notin {"undefined", "object"})
                  => ~q.verified /\ RefusedUpFront(q)
             /\ q.verified
                  => /\ p.params.type \in {"undefined", "object"}
                     /\ q.params = IF p.params.type = "undefined"
                                   THEN EmptyObject ELSE p.params
                     /\ \A i \in DOMAIN q.written :
                           q.written[i].method # AuthMethod
                              => q.written[i].params = q.params]_vars

\* C26 witness: the caller envelope of an accepted token carries the token's
\* params object.
C26_Witness ==
    \E r \in DOMAIN req :
        /\ req[r].verified
        /\ req[r].body.payload.params = Obj("{x:1}")
        /\ Len(req[r].written) = 2
        /\ req[r].written[2].params = Obj("{x:1}")

\* C26 witness of the refusal: a token that is valid but for its array params
\* has been refused with the params error.
C26_RefusalReached ==
    \E r \in DOMAIN req :
        /\ ThrowsMessage(r, "JWT params must be an object")
        /\ req[r].body.payload.params.type = "array"

-----------------------------------------------------------------------------
\* C27: Stray response id.  Once a frame whose id differs from the awaited id
\* has arrived on a call's connection, the call has failed with an error: the
\* call does not go on waiting, and no later matching frame is returned.
C27_StrayResponseId ==
    \A r \in DOMAIN req :
        Strays(r) > 0
        => /\ req[r].pc = "done"
           /\ req[r].outcome.kind = "throw"

\* A frame with a foreign id has been skipped and a later matching frame has
\* been returned as the result
C27_StraySkipped ==
    \E r \in DOMAIN req :
        /\ Strays(r) > 0
        /\ req[r].outcome.kind = "return"
        /\ req[r].received[1].id = StrayId

-----------------------------------------------------------------------------
\* C28: Connection lost while waiting.  A call whose connection was closed by
\* the backend, or failed, before the awaited frame arrived eventually fails
\* with an error.
C28_ConnectionLostFails ==
    \A r \in Slots : [](req[r].pc = "hung" => <>(req[r].pc = "done"))

-----------------------------------------------------------------------------
\* C29: Bounded waiting.  A call that waits for a response on an established
\* connection eventually stops waiting: the response arrives, the connection
\* is lost, or the wait is ended by a timeout error.
C29_BoundedWaiting ==
    \A r \in Slots :
        [](req[r].pc \in {"awaitAuth", "awaitCall"}
              => <>(req[r].pc \in {"done", "hung"}))

-----------------------------------------------------------------------------
\* C30: Malformed frame.  Once a line that is not valid JSON has arrived on a
\* call's connection while the call was waiting for a response, the call has
\* failed with an error (status 500), its connection is closed, and no frame
\* is returned as its result.
C30_MalformedFrame ==
    \A r \in DOMAIN req :
        req[r].malformed
        => /\ req[r].pc = "done"
           /\ req[r].outcome.kind = "throw"
           /\ HttpStatus(req[r].outcome) = 500
           /\ ~req[r].connOpen

\* C30 witness: the malformed line arrived after a stray frame and the auth
\* response, while the answer to the caller's envelope was awaited.
C30_Witness ==
    \E r \in DOMAIN req :
        /\ req[r].malformed
        /\ req[r].pc = "done"
        /\ Len(req[r].written) = 2
        /\ Len(req[r].received) = 2
        /\ ThrowsMessage(r, "Could not parse row")

-----------------------------------------------------------------------------
\* C31: Connect failure and no retry.  When the connection attempt of a call
\* fails, the call has failed with the connect error, nothing was written and
\* no connection is open; and whatever the outcome of a request, at most one
\* backend connection attempt was made for it.
C31_ConnectFailureNoRetry ==
    [][\A r \in Slots :
          /\ (req[r].pc = "connecting" /\ req'[r].pc \notin {"connecting", "awaitAuth"})
                => /\ req'[r].pc = "done"
                   /\ req'[r].outcome = Throw(<<"connect ECONNREFUSED">>)
                   /\ HttpStatus(req'[r].outcome) = 500
                   /\ req'[r].written = <<>> /\ req'[r].received = <<>>
                   /\ ~req'[r].connOpen
          /\ req'[r].attempts <= 1
          /\ (req'[r].pc # "idle" /\ req[r].pc # "idle")
                => req'[r].attempts = req[r].attempts]_vars

\* C31 witness: the connect of a request whose token was accepted has failed;
\* the request is answered with the connect error after one attempt.
C31_Witness ==
    \E r \in DOMAIN req :
        /\ ThrowsMessage(r, "connect ECONNREFUSED")
        /\ req[r].verified
        /\ req[r].attempts = 1
        /\ req[r].written = <<>>

-----------------------------------------------------------------------------
\* Ids of the envelopes written on r's connection
WrittenIds(r) == {req[r].written[i].id : i \in DOMAIN req[r].written}

\* C32: Connection isolation under concurrency.  With several requests in
\* flight, under every interleaving: the envelopes of different requests carry
\* different ids (each request has a connection of its own); the first
\* envelope on every connection is the jamulus/apiAuth envelope and the
\* caller's envelope follows only after its answer; every frame a request has
\* received answers an envelope of its own connection or is a stray frame of
\* that connection; and a returned response is the answer to the request's own
\* caller envelope, which carries the request's method and params.
C32_ConnectionIsolation ==
    /\ \A r1, r2 \in DOMAIN req :
          r1 # r2 => WrittenIds(r1) \cap WrittenIds(r2) = {}
    /\ \A r \in DOMAIN req :
          /\ req[r].connOpen => req[r].attempts = 1
          /\ req[r].written # <<>> => req[r].written[1] = AuthEnvelope(r)
          /\ Len(req[r].written) >= 2
                => /\ req[r].written[2] = CallEnvelope(r)
                   /\ \E k \in DOMAIN req[r].received :
                         req[r].received[k] = ResultFrame(AuthId(r), "ok")
          /\ \A k \in DOMAIN req[r].received :
                req[r].received[k].id \in WrittenIds(r) \cup {StrayId}
          /\ req[r].outcome.kind = "return"
                => /\ req[r].outcome.value.id = CallId(r)
                   /\ \E k \in DOMAIN req[r].received :
                         req[r].received[k] = req[r].outcome.value
                   /\ \A q \in DOMAIN req \ {r} :
                         req[r].outcome.value.id \notin WrittenIds(q)

\* C32 witness: two requests are in flight, each on a connection of its own;
\* one has returned the answer to its caller envelope while the other still
\* waits for the answer to its own.
C32_Witness ==
    \E r1, r2 \in DOMAIN req :
        /\ r1 # r2
        /\ req[r1].outcome.kind = "return"
        /\ req[r1].outcome.value.id = CallId(r1)
        /\ req[r2].pc = "awaitCall"
        /\ req[r2].connOpen
        /\ req[r2].n < req[r1].n

-----------------------------------------------------------------------------
\* C33: Cancellation.  If the HTTP request is cancelled while its backend call
\* is in flight, the backend connection of that call is eventually closed.
C33_CancellationCloses ==
    \A r \in Slots :
        []((req[r].cancelled /\ req[r].connOpen) => <>(~req[r].connOpen))

\* The request was cancelled while it waited for the backend and the
\* connection is still open, waiting for the response
C33_CancelledStillWaiting ==
    \E r \in DOMAIN req :
        /\ req[r].cancelled
        /\ req[r].connOpen
        /\ req[r].pc = "awaitCall"

-----------------------------------------------------------------------------
-----------------------------------------------------------------------------
\* C35: Key file contents.  Once the configured value has been read, a value
\* that is the absolute path of an existing file holding PEM text, or the
\* base64 encoding of PEM text, has loaded, and the key is the one that the
\* file's trimmed contents load when given as the inline value.
C35_KeyFileContents ==
    (publicKey # KeyUnread /\ keyConfig.encoding \in {"file", "file-base64"})
    => /\ publicKey.status = "loaded"
       /\ publicKey = readPublicKey(Trim(Files[Trim(keyConfig.value)]))
       /\ publicKey.pem = Trim(keyConfig.key)

\* The file holding PEM text has loaded the key its contents load inline
C35_PemFileLoaded ==
    /\ keyConfig.value = PemPath
    /\ publicKey = KeyLoaded(FilePem)
    /\ publicKey = readPublicKey(Files[PemPath])

-----------------------------------------------------------------------------
\* C36: Credential check precedes token processing.  A request with a missing
\* or unrecognized X-API-Key is refused without backend contact and leaves the
\* replay cache, the last-sweep time and the set of accepted tokens unchanged,
\* even when its body carries a valid unused token; and such a token would
\* still be accepted right afterwards when presented with a valid API key.
C36_CredentialCheckFirst ==
    [][\A r \in Slots :
          (Handles(r) /\ ~KeyOk(req'[r].apiKey))
          => /\ RefusedUpFront(req'[r])
             /\ usedJtis' = usedJtis
             /\ lastCleanup' = lastCleanup
             /\ accepted' = accepted /\ everRecorded' = everRecorded
             /\ (jwtEnabled
                   /\ ValidRequest([req'[r] EXCEPT !.apiKey = ValidKey], usedJtis, now))
                  => LET v == verify(req'[r].body, req'[r].method,
                                     usedJtis', lastCleanup', now)
                     IN /\ v.ok
                        /\ v.usedJtis[req'[r].body.payload.jti.val]
                              = req'[r].body.payload.exp.val]_vars

\* C36 witness: a request with an unrecognized key and a valid unused token
\* has been refused while the cache holds another token's entry and none for
\* the refused request's jti.
C36_Witness ==
    \E r \in DOMAIN req :
        /\ jwtEnabled
        /\ ThrowsMessage(r, "Invalid X-API-Key header")
        /\ req[r].body = GoodJwt("jti-a", ExpLater)
        /\ now < ExpLater
        /\ DOMAIN usedJtis = {"jti-b"}
        /\ req[r].body \notin accepted

-----------------------------------------------------------------------------
\* Envelopes written on r's connection for which no frame with their id has
\* been received
Outstanding(r) ==
    {i \in DOMAIN req[r].written :
        \A k \in DOMAIN req[r].received :
            req[r].received[k].id # req[r].written[i].id}

\* C37: Single outstanding envelope.  On every backend connection at most one
\* envelope awaits its response at any time; while the call waits, the
\* outstanding envelope is the last one written; the ids of the auth envelope
\* and of the caller's envelope differ; and the caller's envelope is written
\* only after the frame answering the auth envelope has arrived, so that no
\* frame carrying the auth id completes the wait for the caller's response.
C37_SingleOutstandingEnvelope ==
    \A r \in DOMAIN req :
        LET w == req[r].written
            f == req[r].received
        IN /\ Len(w) <= 2
           /\ Cardinality(Outstanding(r)) <= 1
           /\ req[r].pc \in {"awaitAuth", "awaitCall"} => Outstanding(r) = {Len(w)}
           /\ Len(w) = 2
                => /\ w[1].id # w[2].id
                   /\ FirstWithId(f, w[1].id) # 0
                   /\ ~HasError(f[FirstWithId(f, w[1].id)])
           /\ (req[r].pc = "awaitCall") => (\A k \in DOMAIN f : f[k].id # w[2].id)

\* C37 witness: while the caller's envelope is outstanding a second frame
\* with the auth envelope's id has arrived and the call is still waiting.
C37_Witness ==
    \E r \in DOMAIN req :
        /\ req[r].pc = "awaitCall"
        /\ Outstanding(r) = {2}
        /\ Len(req[r].received) = 2
        /\ req[r].received[1].id = req[r].written[1].id
        /\ req[r].received[2].id = req[r].written[1].id

====
